---- MODULE Spec2Model ----
(***************************************************************************)
(* The job system of CubeUniverseRs (shared/src/engine/job).               *)
(*                                                                         *)
(*   SelSpec  - Inner::get_optimal_thread_for_execution as a function of   *)
(*              the cursor and of each thread's executing flag and queued  *)
(*              count (system.rs 62-93).                                   *)
(*   Spec     - the pool: job_system_init, run_job, the pool-wide wait,    *)
(*              worker threads draining their queues, futures              *)
(*              (system.rs 19-59, 109-127).                                *)
(*                                                                         *)
(*   BufSpec  - JobRunDataBuffer (new, get, is_zeroed, drop) and JobData     *)
(*              (the constructors and invoke), job_data.rs.                *)
(*                                                                         *)
(* thread.rs (JobThread) and future.rs (JobFuture) are not part of the     *)
(* available sources; the worker thread and the future follow sections     *)
(* 4.3 and 4.4 of the specification.                                       *)
(***************************************************************************)
EXTENDS Integers, Sequences, FiniteSets, TLC

\* ---------------------------------------------------------------- bounds
\* hardware-reported parallelism ranges over 1..MaxHw
MaxHw == 3
\* job ids are 1..MaxJobs
MaxJobs == 3
\* thread counts and queue depths enumerated for the selection function
SelMaxThreads == 3
SelMaxDepth == 5
\* the types stored in a buffer have sizes 0..MaxTypeSize bytes
MaxTypeSize == 41
\* the bytes of a stored value, and of the memory next to it, are 0..MaxByte
MaxByte == 1

\* ------------------------------------------------------ program constants
\* QUEUE_CAPACITY, system.rs line 4
QUEUE_CAPACITY == 8192
\* usize::MAX, the initial minimum_queue_load (system.rs line 63); only its
\* being larger than every queued count matters, TLC's largest integer stands
\* for it
USIZE_MAX == 2147483647
\* size_of::<usize>() on the reference platform: buffer: [usize; 5] is five
\* machine words, job_data.rs line 66
WordBytes == 8
BufferWords == 5
\* size_of::<JobRunDataBuffer>()
BufferBytes == BufferWords * WordBytes

\* the threads that call into the job system from outside the pool: the main
\* thread initialises, submits, waits and reads futures; a second thread
\* submits concurrently
MainThread == 101
SecondThread == 102
Callers == {MainThread, SecondThread}
\* the most worker threads a pool can get: max_available_job_threads(MaxHw)
MaxThreads == MaxHw - 1
Threads == 0..(MaxThreads - 1)
\* whoever can be inside run_job: an outside caller, or a worker thread whose
\* job body submits a job
Actors == Callers \cup Threads
NoJob == 0
NoThread == -1
Free == -1
NotReady == -1
JobIds == 1..MaxJobs

VARIABLES
    \* --- selection function on its own
    selThreads,     \* thread_count
    selCursor,      \* current_optimal_thread
    selStart,       \* current_optimal_thread when the last call began
    selExec,        \* thread index -> is_executing()
    selCount,       \* thread index -> queued_count()
    selResult,      \* returned index, NoThread before the call
    \* --- the pool
    hw,                      \* what available_parallelism() reported, 0 = not asked
    build,                   \* "debug" or "release"; "unknown" until the first
                             \* debug assertion is reached
    inited,                  \* JOB_SYSTEM_PTR is non-null
    thread_count,            \* Inner.thread_count
    current_optimal_thread,  \* Inner.current_optimal_thread
    lock,                    \* holder of the Mutex<Inner>, or Free
    poisoned,                \* a thread panicked while holding the mutex
    queue,                   \* thread index -> sequence of queued job ids
    wstate,                  \* thread index -> "parked" | "draining" | "invoking"
    signalled,               \* thread index -> execute() signalled a wake
    pc,                      \* caller -> "idle" | "run_job" | "wait" | "panicked" |
                             \* "uninit_panic" | "crashed"
    rjpc,                    \* actor -> position inside run_job
    rjThread,                \* actor -> index selected by the run_job in progress
    rjJob,                   \* actor -> job id of the run_job in progress
    widx,                    \* caller -> next thread index of the wait() sweep
    waitSeen,                \* caller -> jobs it had submitted when wait() began
    nextJob,                 \* next unused job id
    submitter,               \* job id -> actor that called run_job, or Free
    fut,                     \* job id -> value stored in its future, or NotReady
    got,                     \* the Future.wait() that returned last: the job of
                             \* the future and the value returned
    enqOrder,                \* thread index -> jobs in the order queue_job took them
    invOrder,                \* thread index -> jobs in the order they were invoked
    lastSelector,            \* the actor whose selection was the latest, while its
                             \* job is not enqueued; NoThread otherwise
    rjTwoIdle,               \* actor -> its selection found two or more threads
                             \* idle with an empty queue (until it enqueues)
    \* --- a payload buffer and a job built on it
    bpc,            \* "start" | "stored" | "extracted" | "job" | "invoked" |
                    \* "dropped" | "size_panic" | "drop_panic" | "panicked" |
                    \* "crashed"
    buf,            \* JobRunDataBuffer.buffer, byte by byte
    bSize,          \* size_of::<T>() of the value stored by new, -1 = none
    bVal,           \* the bytes of the value given to new
    gSize,          \* size_of::<T>() of the last get
    gVal,           \* the bytes get returned
    rawOps,         \* the raw copies and fills of the last operation, in order
    jform,          \* the constructor the job was built with, "none" = no job
    jcalls,         \* how often the stored callable has been called
    jargBuf,        \* the buffer the callable received: "none" | "own" | "other"
    jargObj,        \* the receiver the callable received: "none" | "bound" | "other"
    jconsumed       \* the job body extracted its payload

selVars == <<selThreads, selCursor, selStart, selExec, selCount, selResult>>
poolVars == <<hw, build, inited, thread_count, current_optimal_thread, lock,
              poisoned, queue, wstate, signalled, pc, rjpc, rjThread, rjJob,
              widx, waitSeen, nextJob, submitter, fut, got, enqOrder, invOrder,
              lastSelector, rjTwoIdle>>
histVars == <<lastSelector, rjTwoIdle>>
bufVars == <<bpc, buf, bSize, bVal, gSize, gVal, rawOps, jform, jcalls, jargBuf,
             jargObj, jconsumed>>
vars == <<selVars, poolVars, bufVars>>

\* ------------------------------------------------------------ selection
\* system.rs line 68
CheckIndex(cursor, i, n) == (cursor + i) % n

\* system.rs line 71: the thread is idle and nothing is queued on it
PerfectMatch(isNotExecuting, queueLoad) == isNotExecuting /\ queueLoad = 0

\* the cursor is left on the returned thread
AdvanceCursorStays(checkIndex, n) == checkIndex % n

\* the cursor is moved without wrapping around
AdvanceCursorNoWrap(checkIndex, n) == checkIndex + 1

\* system.rs line 72
AdvanceCursor(checkIndex, n) == (checkIndex + 1) % n

\* system.rs lines 76-77: an idle thread replaces the candidate
IdleBetter(isNotExecuting, minLoad, queueLoad) ==
    isNotExecuting /\ minLoad > queueLoad

\* a thread of equal load replaces the candidate
BusyBetterOrEqual(minLoad, queueLoad, isOptimalExecuting) ==
    minLoad >= queueLoad /\ isOptimalExecuting

\* system.rs line 85: a thread replaces the candidate as long as no idle
\* candidate was taken
BusyBetter(minLoad, queueLoad, isOptimalExecuting) ==
    minLoad > queueLoad /\ isOptimalExecuting

\* the cursor moves behind the returned thread on every path
CursorFollowsResult(cursor, currentOptimal, n) == (currentOptimal + 1) % n

\* system.rs line 91: return current_optimal, self.current_optimal_thread is
\* not assigned on this path
CursorAfterScan(cursor, currentOptimal, n) == cursor

\* the loop of system.rs lines 67-89, from iteration i on
RECURSIVE Scan(_, _, _, _, _, _, _, _)
Scan(i, n, cursor, isExec, qCount, minLoad, isOptimalExecuting, currentOptimal) ==
    IF i >= n
    THEN [idx |-> currentOptimal,
          cursor |-> CursorAfterScan(cursor, currentOptimal, n)]
    ELSE LET checkIndex == CheckIndex(cursor, i, n)
             isNotExecuting == ~isExec[checkIndex]
             queueLoad == qCount[checkIndex]
         IN  IF PerfectMatch(isNotExecuting, queueLoad)
             THEN [idx |-> checkIndex, cursor |-> AdvanceCursor(checkIndex, n)]
             ELSE IF IdleBetter(isNotExecuting, minLoad, queueLoad)
             THEN Scan(i + 1, n, cursor, isExec, qCount, queueLoad, FALSE, checkIndex)
             ELSE IF BusyBetter(minLoad, queueLoad, isOptimalExecuting)
             THEN Scan(i + 1, n, cursor, isExec, qCount, queueLoad,
                       isOptimalExecuting, checkIndex)
             ELSE Scan(i + 1, n, cursor, isExec, qCount, minLoad,
                       isOptimalExecuting, currentOptimal)

\* Inner::get_optimal_thread_for_execution: the returned index and the cursor
\* it leaves behind
GetOptimalThreadForExecution(n, cursor, isExec, qCount) ==
    Scan(0, n, cursor, isExec, qCount, USIZE_MAX, TRUE, cursor)

\* ---- the parts of the state a specification leaves alone
SelIdle ==
    /\ selThreads = 1
    /\ selCursor = 0
    /\ selStart = 0
    /\ selExec = [t \in {0} |-> FALSE]
    /\ selCount = [t \in {0} |-> 0]
    /\ selResult = NoThread

PoolIdle ==
    /\ hw = 0
    /\ inited = FALSE
    /\ thread_count = 0
    /\ current_optimal_thread = 0
    /\ lock = Free
    /\ poisoned = FALSE
    /\ queue = [t \in Threads |-> <<>>]
    /\ wstate = [t \in Threads |-> "parked"]
    /\ signalled = [t \in Threads |-> FALSE]
    /\ pc = [c \in Callers |-> "idle"]
    /\ rjpc = [a \in Actors |-> "none"]
    /\ rjThread = [a \in Actors |-> NoThread]
    /\ rjJob = [a \in Actors |-> NoJob]
    /\ widx = [c \in Callers |-> NoThread]
    /\ waitSeen = [c \in Callers |-> {}]
    /\ nextJob = 1
    /\ submitter = [j \in JobIds |-> Free]
    /\ fut = [j \in JobIds |-> NotReady]
    /\ got = [job |-> NoJob, value |-> NotReady]
    /\ enqOrder = [t \in Threads |-> <<>>]
    /\ invOrder = [t \in Threads |-> <<>>]
    /\ lastSelector = NoThread
    /\ rjTwoIdle = [a \in Actors |-> FALSE]

\* ------------------------------------------------- the payload buffer
\* JobRunDataBuffer::default, job_data.rs lines 105-109
ZeroBuffer == [i \in 1..BufferBytes |-> 0]

\* JobRunDataBuffer::is_zeroed, job_data.rs lines 92-98
IsZeroed(b) == \A w \in 0..(BufferWords - 1) :
                  \A k \in 1..WordBytes : b[w * WordBytes + k] = 0

\* the size is compared with the number of bytes a buffer of words would hold
FitsBufferWords(size) == size <= BufferBytes * WordBytes

\* the assert! at the head of new and get, job_data.rs lines 71 and 82
FitsBuffer(size) == size <= BufferBytes

\* a raw copy or fill: count elements of elem bytes each, from an object of src
\* bytes into an object of dst bytes (src = 0 for a fill)
RawOp(op, elem, count, src, dst) ==
    [op |-> op, elem |-> elem, count |-> count, src |-> src, dst |-> dst]
RawBytes(r) == r.elem * r.count
\* the operation reads or writes past the end of an object
ReadsPast(r) == r.src > 0 /\ RawBytes(r) > r.src
WritesPast(r) == RawBytes(r) > r.dst

\* job_data.rs line 75: copy_nonoverlapping::<usize>(&data, buffer, size_of::<T>())
NewCopy(size) == RawOp("new_copy", WordBytes, size, size, BufferBytes)

\* job_data.rs line 86: copy_nonoverlapping::<T>(buffer, &out, size_of::<T>())
GetCopy(size) == RawOp("get_copy", size, size, BufferBytes, size)

\* job_data.rs line 101: write_bytes::<usize>(buffer, 0, size_of::<JobRunDataBuffer>())
ZeroFill == RawOp("zero_fill", WordBytes, BufferBytes, 0, BufferBytes)

\* the copy moves whole words only: size_of::<T>() / size_of::<usize>() of them
StoredBytesWholeWords(val, size, g) ==
    [i \in 1..BufferBytes |->
        IF i <= (size \div WordBytes) * WordBytes THEN val[i] ELSE 0]

\* the bytes new leaves in the buffer: the bytes of the value, then the bytes
\* the copy read behind it (g), as far as the buffer reaches; the rest keeps
\* the zeros of default()
StoredBytes(val, size, g) ==
    [i \in 1..BufferBytes |->
        IF i <= size THEN val[i]
        ELSE IF i <= RawBytes(NewCopy(size)) THEN g
        ELSE 0]

\* the first size bytes of the buffer: what the copy of get puts into out
ExtractedBytes(b, size) == [i \in 1..size |-> b[i]]

\* the values of size bytes the model stores: a first byte, and one byte
\* repeated behind it
ValuesOf(size) ==
    {[i \in 1..size |-> IF i = 1 THEN b1 ELSE b2] : b1, b2 \in 0..MaxByte}

\* what a write past the end of an object can lead to: it hits memory nothing
\* depends on, or the process dies
OverrunOutcomes(r) == IF WritesPast(r) THEN {"intact", "crash"} ELSE {"intact"}

BufIdle ==
    /\ bpc = "start"
    /\ buf = ZeroBuffer
    /\ bSize = -1
    /\ bVal = <<>>
    /\ gSize = -1
    /\ gVal = <<>>
    /\ rawOps = <<>>
    /\ jform = "none"
    /\ jcalls = 0
    /\ jargBuf = "none"
    /\ jargObj = "none"
    /\ jconsumed = FALSE

BufInit ==
    /\ SelIdle
    /\ PoolIdle
    /\ build \in {"debug", "release"}
    /\ BufIdle

\* JobRunDataBuffer::new::<T>(data), job_data.rs lines 70-79
BufNew ==
    /\ bpc = "start"
    /\ \E size \in 0..MaxTypeSize : \E val \in ValuesOf(size) : \E g \in 0..MaxByte :
         /\ bSize' = size
         /\ bVal' = val
         /\ IF ~FitsBuffer(size)
            THEN /\ bpc' = "size_panic"
                 /\ rawOps' = <<>>
                 /\ buf' = buf
            ELSE /\ rawOps' = <<NewCopy(size)>>
                 /\ \E o \in OverrunOutcomes(NewCopy(size)) :
                      IF o = "crash"
                      THEN bpc' = "crashed" /\ buf' = buf
                      ELSE bpc' = "stored" /\ buf' = StoredBytes(val, size, g)
    /\ UNCHANGED <<gSize, gVal, jform, jcalls, jargBuf, jargObj, jconsumed>>
    /\ UNCHANGED <<selVars, poolVars>>

\* JobRunDataBuffer::default(), job_data.rs lines 105-109
BufDefault ==
    /\ bpc = "start"
    /\ bpc' = "stored"
    /\ buf' = ZeroBuffer
    /\ UNCHANGED <<bSize, bVal, gSize, gVal, rawOps, jform, jcalls, jargBuf,
                   jargObj, jconsumed>>
    /\ UNCHANGED <<selVars, poolVars>>

\* what get::<T>() does to a buffer b for a T of size bytes that fits: the
\* copy into out, then fill_with_zero; both can write past their target, out
\* can be hit by the zeros that run past the buffer.  job_data.rs lines 84-89
GetResults(b, size) ==
    {[outcome |-> "intact", val |-> ExtractedBytes(b, size)]}
    \cup (IF WritesPast(GetCopy(size)) \/ WritesPast(ZeroFill)
          THEN {[outcome |-> "crash", val |-> <<>>]}
          ELSE {})
    \cup (IF WritesPast(ZeroFill)
          THEN {[outcome |-> "intact", val |-> [i \in 1..size |-> 0]]}
          ELSE {})

\* JobRunDataBuffer::get::<T>(), job_data.rs lines 81-90; T is the type that
\* was stored, or a type too large for the buffer
BufGet ==
    /\ bpc = "stored"
    /\ bSize >= 0
    /\ \E size \in {bSize} \cup {z \in 0..MaxTypeSize : ~FitsBuffer(z)} :
         /\ gSize' = size
         /\ IF ~FitsBuffer(size)
            THEN /\ bpc' = "size_panic"
                 /\ rawOps' = <<>>
                 /\ UNCHANGED <<buf, gVal>>
            ELSE /\ rawOps' = <<GetCopy(size), ZeroFill>>
                 /\ \E r \in GetResults(buf, size) :
                      IF r.outcome = "crash"
                      THEN bpc' = "crashed" /\ UNCHANGED <<buf, gVal>>
                      ELSE /\ bpc' = "extracted"
                           /\ gVal' = r.val
                           /\ buf' = ZeroBuffer
    /\ UNCHANGED <<bSize, bVal, jform, jcalls, jargBuf, jargObj, jconsumed>>
    /\ UNCHANGED <<selVars, poolVars>>

\* the assertion is compiled into debug builds only
DropCheckDebugOnly(b, bld) == bld = "debug" => IsZeroed(b)

\* assert!(self.is_zeroed(), ...), job_data.rs line 113
DropCheck(b, bld) == IsZeroed(b)

\* Drop for JobRunDataBuffer, job_data.rs lines 111-115: of a buffer on its
\* own, or of the buffer of a JobData that is dropped
BufDrop ==
    /\ bpc \in {"stored", "extracted", "job", "invoked"}
    /\ bpc' = IF DropCheck(buf, build) THEN "dropped" ELSE "drop_panic"
    /\ rawOps' = <<>>
    /\ UNCHANGED <<buf, bSize, bVal, gSize, gVal, jform, jcalls, jargBuf,
                   jargObj, jconsumed>>
    /\ UNCHANGED <<selVars, poolVars>>

\* ------------------------------------------------------------- JobData
\* the constructors of JobData, job_data.rs lines 131-191
Forms == {"from_func", "from_func_buffer", "from_obj", "from_obj_mut",
          "from_obj_buffer", "from_obj_buffer_mut", "from_closure",
          "from_closure_buffer"}

\* the JobFunc variant each constructor stores, job_data.rs lines 14-62
JobFuncOf(form) ==
    CASE form = "from_func" -> "FreeFunction"
      [] form = "from_func_buffer" -> "FreeFunctionBuffer"
      [] form \in {"from_obj", "from_obj_mut"} -> "Member"
      [] form \in {"from_obj_buffer", "from_obj_buffer_mut"} -> "MemberBuffer"
      [] form = "from_closure" -> "Closure"
      [] form = "from_closure_buffer" -> "ClosureBuffer"

\* the constructors that take a buffer from the caller; the others store
\* JobRunDataBuffer::default()
BufferForms == {"from_func_buffer", "from_obj_buffer", "from_obj_buffer_mut",
                "from_closure_buffer"}
ObjectForms == {"from_obj", "from_obj_mut", "from_obj_buffer",
                "from_obj_buffer_mut"}

\* the receiver the stored callable passes on: the closures of new_from_obj*
\* call func(&*object), job_data.rs lines 26, 34, 42, 50
ReceiverOf(form) == IF form \in ObjectForms THEN "bound" ELSE "none"

\* the callable is handed a buffer other than the job's
InvokeArgFresh(variant) ==
    IF variant \in {"FreeFunctionBuffer", "MemberBuffer", "ClosureBuffer"}
    THEN "other" ELSE "none"

\* the argument each arm of invoke passes, job_data.rs lines 194-202:
\* fetched_buffer, the job's own buffer, for the buffer variants
InvokeArg(variant) ==
    IF variant \in {"FreeFunctionBuffer", "MemberBuffer", "ClosureBuffer"}
    THEN "own" ELSE "none"

\* each arm of the match calls the callable once
CallsPerInvoke == 1

\* debug_assert!(fetched_buffer.is_zeroed()), job_data.rs line 203
InvokeCheck(b, bld) == bld = "debug" => IsZeroed(b)

\* JobData::from_func, from_obj, from_obj_mut, from_closure: a job on a
\* default buffer
JobNewPlain ==
    /\ bpc = "start"
    /\ \E form \in Forms \ BufferForms : jform' = form
    /\ bpc' = "job"
    /\ buf' = ZeroBuffer
    /\ UNCHANGED <<bSize, bVal, gSize, gVal, rawOps, jcalls, jargBuf, jargObj,
                   jconsumed>>
    /\ UNCHANGED <<selVars, poolVars>>

\* JobData::from_func_buffer, from_obj_buffer, from_obj_buffer_mut,
\* from_closure_buffer: the job takes the caller's buffer
JobNewBuffer ==
    /\ bpc = "stored"
    /\ \E form \in BufferForms : jform' = form
    /\ bpc' = "job"
    /\ UNCHANGED <<buf, bSize, bVal, gSize, gVal, rawOps, jcalls, jargBuf,
                   jargObj, jconsumed>>
    /\ UNCHANGED <<selVars, poolVars>>

\* JobData::invoke, job_data.rs lines 193-204.  The body of a job that is
\* handed a buffer with a payload either extracts the payload with get, or
\* leaves it
JobInvoke ==
    /\ bpc = "job"
    /\ jcalls' = jcalls + CallsPerInvoke
    /\ jargBuf' = InvokeArg(JobFuncOf(jform))
    /\ jargObj' = ReceiverOf(jform)
    /\ \E consumes \in {c \in BOOLEAN : c => (jargBuf' # "none" /\ bSize >= 0)} :
         /\ jconsumed' = consumes
         /\ IF consumes
            THEN /\ rawOps' = <<GetCopy(bSize), ZeroFill>>
                 /\ gSize' = bSize
                 /\ \E r \in GetResults(buf, bSize) :
                      IF r.outcome = "crash"
                      THEN bpc' = "crashed" /\ UNCHANGED <<buf, gVal>>
                      ELSE /\ gVal' = r.val
                           /\ buf' = IF jargBuf' = "own" THEN ZeroBuffer ELSE buf
                           /\ bpc' = IF InvokeCheck(buf', build)
                                     THEN "invoked" ELSE "panicked"
            ELSE /\ UNCHANGED <<buf, gVal, gSize, rawOps>>
                 /\ bpc' = IF InvokeCheck(buf, build) THEN "invoked" ELSE "panicked"
    /\ UNCHANGED <<bSize, bVal, jform>>
    /\ UNCHANGED <<selVars, poolVars>>

BufNext ==
    \/ BufNew
    \/ BufDefault
    \/ BufGet
    \/ BufDrop
    \/ JobNewPlain
    \/ JobNewBuffer
    \/ JobInvoke

BufSpec == BufInit /\ [][BufNext]_vars

\* ---- properties of the buffer and of the job
NonZero(val) == \E i \in 1..Len(val) : val[i] # 0

\* C3 as stated: for each construction form one invoke() calls the stored
\* callable exactly once, passes the job's own buffer to the buffer forms and
\* the bound object to the bound-object forms, and leaves the buffer zeroed
C3_InvokeOnceZeroed ==
    bpc = "invoked" =>
        /\ jcalls = 1
        /\ jargBuf = (IF jform \in BufferForms THEN "own" ELSE "none")
        /\ jargObj = (IF jform \in ObjectForms THEN "bound" ELSE "none")
        /\ IsZeroed(buf)

\* C3 amended: the callable is called once with the job's own buffer and the
\* bound object; the buffer is zeroed when invoke returns provided the job
\* body extracted its payload or the build is a debug build
C3_InvokeOnceZeroedIfConsumed ==
    bpc = "invoked" =>
        /\ jcalls = 1
        /\ jargBuf = (IF jform \in BufferForms THEN "own" ELSE "none")
        /\ jargObj = (IF jform \in ObjectForms THEN "bound" ELSE "none")
        /\ (jconsumed \/ build = "debug" \/ jform \notin BufferForms)
              => IsZeroed(buf)

\* a bound-object job with a buffer whose body extracted a non-zero payload
C3_Witness ==
    /\ bpc = "invoked"
    /\ jform = "from_obj_buffer_mut"
    /\ jconsumed
    /\ NonZero(bVal)
    /\ jargBuf = "own"
    /\ jargObj = "bound"
    /\ IsZeroed(buf)

\* C4: for every T that fits the buffer and every value v of T, new(v)
\* followed by get::<T>() returns the bit pattern of v, and is_zeroed() is
\* true right after the get
C4_RoundTrip ==
    (bSize >= 0 /\ FitsBuffer(bSize) /\ bpc \in {"stored", "extracted", "crashed"}
       /\ jform = "none") =>
        /\ bpc # "crashed"
        /\ bpc = "extracted" => (gSize = bSize /\ gVal = bVal /\ IsZeroed(buf))

\* C12: destroying a buffer whose bytes are not all zero ends in the
\* consumption-violation assertion, in debug and in release builds alike;
\* destroying a buffer that is all zero never does: a buffer that came from
\* default() or that get was called on is never the one that fails
C12_DropAssertsNonZero ==
    /\ bpc = "drop_panic" => ~IsZeroed(buf)
    /\ bpc = "dropped" => IsZeroed(buf)
    /\ bpc = "drop_panic" => (bSize >= 0 /\ gSize = -1)

\* a release build: the payload of a job whose body did not extract it got
\* past invoke and is caught when the job is destroyed
C12_Witness ==
    /\ bpc = "drop_panic"
    /\ build = "release"
    /\ jform \in BufferForms
    /\ jcalls = 1
    /\ ~jconsumed
    /\ NonZero(bVal)

\* C13: new::<T> and get::<T> with size_of::<T>() larger than the buffer end
\* in the size assertion before any raw copy or fill; new stores nothing and
\* get leaves the buffer as new had filled it and returns nothing
C13_SizeAssertAtBoundary ==
    /\ bSize > BufferBytes =>
          /\ bpc = "size_panic"
          /\ rawOps = <<>>
          /\ buf = ZeroBuffer
          /\ gSize = -1
    /\ gSize > BufferBytes =>
          /\ bpc = "size_panic"
          /\ rawOps = <<>>
          /\ gVal = <<>>
          /\ \E g \in 0..MaxByte : buf = StoredBytes(bVal, bSize, g)
    /\ bpc = "size_panic" => (bSize > BufferBytes \/ gSize > BufferBytes)

\* get::<T> of a T of 41 bytes on a buffer that holds a non-zero payload
C13_Witness ==
    /\ bpc = "size_panic"
    /\ gSize = BufferBytes + 1
    /\ bSize \in 1..BufferBytes
    /\ NonZero(bVal)
    /\ ~IsZeroed(buf)

\* the number of bytes an operation on a buffer is meant to move: the size of
\* the stored type, of the extracted type, of the buffer
BytesMeant(r) ==
    CASE r.op = "new_copy" -> bSize
      [] r.op = "get_copy" -> gSize
      [] r.op = "zero_fill" -> BufferBytes

\* C15: every raw copy and fill of new, get and fill_with_zero stays inside
\* the objects it works on: element size times element count is the size of
\* the stored or extracted type, or of the buffer for the re-zeroing, and
\* never more than the buffer holds
C15_RawOpsInBounds ==
    \A i \in 1..Len(rawOps) :
        /\ RawBytes(rawOps[i]) = BytesMeant(rawOps[i])
        /\ RawBytes(rawOps[i]) <= BufferBytes
        /\ ~ReadsPast(rawOps[i])
        /\ ~WritesPast(rawOps[i])

\* a buffer made by new holds a payload nobody has extracted
LivePayload == bpc \in {"stored", "job"} /\ bSize >= 0

\* C16 as stated: for every value v the buffer new(v) returns is not all zero
\* until get is called
C16_LiveNeverZero ==
    LivePayload => ~IsZeroed(buf)

\* C16 amended: for every value v with a non-zero byte the buffer new(v)
\* returns is not all zero until get is called, and a buffer-form job that
\* carries it and whose body does not extract it never gets past both checks:
\* in a debug build invoke does not return, in every build the destruction
\* of the job fails
C16_LiveNonZeroValueNeverZero ==
    NonZero(bVal) =>
        /\ LivePayload => ~IsZeroed(buf)
        /\ (gSize = -1 /\ ~jconsumed) =>
              /\ bpc # "dropped"
              /\ (build = "debug" /\ jform \in BufferForms) => bpc # "invoked"

\* a debug build: the body of a job did not extract a one-byte payload and
\* the check after the invocation caught it
C16_Witness ==
    /\ build = "debug"
    /\ bpc = "panicked"
    /\ jform \in BufferForms
    /\ jcalls = 1
    /\ ~jconsumed
    /\ bSize = 1
    /\ NonZero(bVal)
    /\ ~IsZeroed(buf)

\* ------------------------------------------- selection on its own: SelSpec
SelInit ==
    /\ selThreads \in 1..SelMaxThreads
    /\ selCursor \in 0..(selThreads - 1)
    /\ selStart = selCursor
    /\ selExec \in [0..(selThreads - 1) -> BOOLEAN]
    /\ selCount \in [0..(selThreads - 1) -> 0..SelMaxDepth]
    /\ selResult = NoThread
    /\ build = "unknown"
    /\ PoolIdle
    /\ BufIdle

\* one call of get_optimal_thread_for_execution on the drawn pool; the cursor
\* it leaves is the cursor of the next call
SelSelect ==
    /\ LET r == GetOptimalThreadForExecution(selThreads, selCursor, selExec, selCount)
       IN  /\ selResult' = r.idx
           /\ selCursor' = r.cursor
    /\ selStart' = selCursor
    /\ UNCHANGED <<selThreads, selExec, selCount>>
    /\ UNCHANGED <<poolVars, bufVars>>

SelNext == SelSelect

SelSpec == SelInit /\ [][SelNext]_vars

\* ---- properties of the selection
SelPool == 0..(selThreads - 1)
SelCalled == selResult # NoThread
SelIdleEmpty == {t \in SelPool : ~selExec[t] /\ selCount[t] = 0}
SelAllBusy == \A t \in SelPool : selExec[t]
\* the position of thread t in the scan that starts at cursor c
ScanPos(t, c, n) == (t - c + n) % n
\* the thread of S the scan from cursor c reaches first
FirstInScan(S, c, n) ==
    CHOOSE t \in S : \A u \in S : ScanPos(t, c, n) <= ScanPos(u, c, n)
SelMinCount == {t \in SelPool : \A u \in SelPool : selCount[t] <= selCount[u]}

\* C5: when some thread is idle with nothing queued, the selection returns the
\* first such thread in the scan order c, c+1, ..., c+N-1 (mod N) and leaves
\* the cursor at (idx + 1) mod N
C5_FirstIdleEmpty ==
    (SelCalled /\ SelIdleEmpty # {}) =>
        /\ selResult = FirstInScan(SelIdleEmpty, selStart, selThreads)
        /\ selCursor = (selResult + 1) % selThreads

\* threads 0 and 1 busy, thread 2 idle and empty, cursor 0: thread 2 is returned
C5_Witness ==
    /\ SelCalled
    /\ selThreads = 3
    /\ selStart = 0
    /\ selExec = [t \in 0..2 |-> t # 2]
    /\ selCount[2] = 0
    /\ selCount[0] > 0
    /\ selResult = 2
    /\ selCursor = 0

\* C6: when every thread is executing, the selection returns a thread of
\* minimum queued count, the first of them in the scan order from the cursor
C6_BusyMinimumFirst ==
    (SelCalled /\ SelAllBusy) =>
        selResult = FirstInScan(SelMinCount, selStart, selThreads)

\* all busy with depths 5, 2, 2 and cursor 0: thread 1 is returned
C6_Witness ==
    /\ SelCalled
    /\ selThreads = 3
    /\ selStart = 0
    /\ SelAllBusy
    /\ selCount = [t \in 0..2 |-> IF t = 0 THEN 5 ELSE 2]
    /\ selResult = 1

\* C17: a selection that finds no thread idle with an empty queue leaves the
\* cursor where it was, and no selection changes the thread count, a thread's
\* executing flag or a thread's queued count
C17_CursorKeptFrame ==
    [][SelSelect =>
          /\ SelIdleEmpty = {} => selCursor' = selCursor
          /\ selThreads' = selThreads
          /\ selExec' = selExec
          /\ selCount' = selCount]_vars

\* no thread is idle and empty; the selection returned a thread other than
\* the one under the cursor and the cursor has not moved
C17_Witness ==
    /\ SelCalled
    /\ SelIdleEmpty = {}
    /\ selThreads = 3
    /\ selResult # selStart
    /\ (selResult + 1) % selThreads # selStart
    /\ selCursor = selStart

\* ------------------------------------------------------ the pool: Spec
\* max_available_job_threads, system.rs lines 109-111
MaxAvailableJobThreads(p) == p - 1

\* the build profile is fixed for the process; the model fixes it at the
\* first debug assertion that is reached
Builds(b) == IF b = "unknown" THEN {"debug", "release"} ELSE {b}

\* the worker threads of the pool
Pool == 0..(thread_count - 1)

\* JobThread::is_executing: the run loop is draining its queue
IsExecuting(t) == wstate[t] # "parked"

\* JobThread::queued_count: the run loop pops a job, invokes it and then
\* decrements the count, so the job being invoked still counts
QueuedCount(t) == Len(queue[t]) + (IF wstate[t] = "invoking" THEN 1 ELSE 0)

\* the threads that are idle with nothing queued
IdleEmpty == {t \in Pool : ~IsExecuting(t) /\ QueuedCount(t) = 0}

\* what JobThread::wait blocks for: the queue is empty and the thread is not
\* in the middle of an invocation
ThreadDrained(t) == queue[t] = <<>> /\ wstate[t] # "invoking"

\* the job a worker thread is invoking
CurrentJob(t) == invOrder[t][Len(invOrder[t])]

\* the integer the closure of the j-th submitted job returns: the loop index i
\* of integration_tests.rs lines 23-27
JobValue(j) == j - 1

\* the futures run_job has returned to caller c
Handles(c) == {j \in JobIds : submitter[j] = c /\ rjJob[c] # j}

\* the process before job_system_init: no scheduler is published
Init ==
    /\ SelIdle
    /\ build = "unknown"
    /\ PoolIdle
    /\ BufIdle

\* job_system_init(max_available_job_threads()), system.rs lines 120-127 with
\* JobSystem::new, lines 21-34; tests/job_system/mod.rs line 11
JobSystemInit(c) ==
    /\ pc[c] = "idle"
    /\ ~inited
    /\ \E p \in 1..MaxHw :
         /\ hw' = p
         /\ LET n == MaxAvailableJobThreads(p)
            IN  IF n = 0
                THEN \E b \in Builds(build) :
                       /\ build' = b
                       /\ IF b = "debug"
                          THEN \* debug_assert_ne!(thread_count, 0)
                               /\ pc' = [pc EXCEPT ![c] = "panicked"]
                               /\ UNCHANGED <<inited, thread_count>>
                          ELSE /\ inited' = TRUE
                               /\ thread_count' = n
                               /\ pc' = pc
                ELSE /\ inited' = TRUE
                     /\ thread_count' = n
                     /\ UNCHANGED <<pc, build>>
    /\ current_optimal_thread' = 0
    /\ UNCHANGED <<lock, poisoned, queue, wstate, signalled, rjpc,
                   rjThread, rjJob, widx, waitSeen, nextJob, submitter, fut,
                   got, enqOrder, invOrder>>
    /\ UNCHANGED histVars
    /\ UNCHANGED <<selVars, bufVars>>

\* debug_assert!(!JOB_SYSTEM_PTR.0.is_null(), ...), system.rs lines 147 and
\* 174: compiled into debug builds only
UninitAssertNever(b) == FALSE

UninitAssert(b) == b = "debug"

\* what a global call does while JOB_SYSTEM_PTR is null: the debug assertion
\* panics the caller; without it the call dereferences the null pointer,
\* which ends the process
UninitCall(c) ==
    /\ pc[c] = "idle"
    /\ ~inited
    /\ \E b \in Builds(build) :
         /\ build' = b
         /\ IF UninitAssert(b)
            THEN pc' = [pc EXCEPT ![c] = "uninit_panic"]
            ELSE pc' = [x \in Callers |-> "crashed"]
    /\ UNCHANGED <<hw, inited, thread_count, current_optimal_thread, lock,
                   poisoned, queue, wstate, signalled, rjpc, rjThread, rjJob,
                   widx, waitSeen, nextJob, submitter, fut, got, enqOrder,
                   invOrder>>
    /\ UNCHANGED histVars
    /\ UNCHANGED <<selVars, bufVars>>

\* job_system_run before any job_system_init, system.rs lines 144-150
JobSystemRunUninit(c) == UninitCall(c)

\* job_system_wait before any job_system_init, system.rs lines 172-177
JobSystemWaitUninit(c) == UninitCall(c)

\* a caller thread calls job_system_run (system.rs lines 144-150) with a new
\* closure and takes the lock, self.inner.lock().unwrap(), line 40; a caller
\* that finds the mutex taken blocks, it proceeds once it is free
RunJobCall(c) ==
    /\ pc[c] = "idle"
    /\ inited
    /\ nextJob <= MaxJobs
    /\ lock = Free
    /\ rjJob' = [rjJob EXCEPT ![c] = nextJob]
    /\ submitter' = [submitter EXCEPT ![nextJob] = c]
    /\ nextJob' = nextJob + 1
    /\ IF poisoned
       THEN \* unwrap() of a poisoned mutex
            /\ pc' = [pc EXCEPT ![c] = "panicked"]
            /\ UNCHANGED <<lock, rjpc>>
       ELSE /\ lock' = c
            /\ rjpc' = [rjpc EXCEPT ![c] = "locked"]
            /\ pc' = [pc EXCEPT ![c] = "run_job"]
    /\ UNCHANGED <<hw, build, inited, thread_count, current_optimal_thread,
                   poisoned, queue, wstate, signalled, rjThread, widx,
                   waitSeen, fut, got, enqOrder, invOrder>>
    /\ UNCHANGED histVars
    /\ UNCHANGED <<selVars, bufVars>>

\* the body of a job that a caller submitted calls job_system_run with a new
\* closure; it is now committed to taking the lock
BodyRunJobCall(t) ==
    /\ t \in Pool
    /\ wstate[t] = "invoking"
    /\ submitter[CurrentJob(t)] \in Callers
    /\ rjpc[t] = "none"
    /\ nextJob <= MaxJobs
    /\ rjpc' = [rjpc EXCEPT ![t] = "calling"]
    /\ rjJob' = [rjJob EXCEPT ![t] = nextJob]
    /\ submitter' = [submitter EXCEPT ![nextJob] = t]
    /\ nextJob' = nextJob + 1
    /\ UNCHANGED <<hw, build, inited, thread_count, current_optimal_thread,
                   lock, poisoned, queue, wstate, signalled, pc, rjThread, widx,
                   waitSeen, fut, got, enqOrder, invOrder>>
    /\ UNCHANGED histVars
    /\ UNCHANGED <<selVars, bufVars>>

\* self.inner.lock().unwrap(), system.rs line 40, in the run_job of a job
\* body; no worker thread exists once the mutex is poisoned
BodyRunJobLock(t) ==
    /\ rjpc[t] = "calling"
    /\ lock = Free
    /\ ~poisoned
    /\ lock' = t
    /\ rjpc' = [rjpc EXCEPT ![t] = "locked"]
    /\ UNCHANGED <<hw, build, inited, thread_count, current_optimal_thread,
                   poisoned, queue, wstate, signalled, pc, rjThread, rjJob, widx,
                   waitSeen, nextJob, submitter, fut, got, enqOrder, invOrder>>
    /\ UNCHANGED histVars
    /\ UNCHANGED <<selVars, bufVars>>

\* system.rs lines 41-43: the selection, the indexing of threads and the end
\* of the block that holds the guard
RunJobSelect(a) ==
    /\ rjpc[a] = "locked"
    /\ lock = a
    /\ LET r == GetOptimalThreadForExecution(thread_count, current_optimal_thread,
                    [t \in Pool |-> IsExecuting(t)], [t \in Pool |-> QueuedCount(t)])
       IN  IF r.idx \in Pool
           THEN /\ rjThread' = [rjThread EXCEPT ![a] = r.idx]
                /\ current_optimal_thread' = r.cursor
                /\ rjpc' = [rjpc EXCEPT ![a] = "selected"]
                /\ UNCHANGED <<poisoned, pc>>
           ELSE \* threads[optimal_thread_index] is out of bounds: the panic
                \* unwinds through the guard and poisons the mutex
                /\ poisoned' = TRUE
                /\ current_optimal_thread' = r.cursor
                /\ rjpc' = [rjpc EXCEPT ![a] = "none"]
                /\ pc' = [x \in Callers |-> IF x = a THEN "panicked" ELSE pc[x]]
                /\ UNCHANGED rjThread
    /\ lock' = Free
    /\ lastSelector' = IF rjpc'[a] = "selected" THEN a ELSE lastSelector
    /\ rjTwoIdle' = [rjTwoIdle EXCEPT ![a] = rjpc'[a] = "selected"
                                               /\ Cardinality(IdleEmpty) >= 2]
    /\ UNCHANGED <<rjJob, hw, build, inited, thread_count, queue, wstate, signalled,
                   widx, waitSeen, nextJob, submitter, fut, got, enqOrder,
                   invOrder>>
    /\ UNCHANGED <<selVars, bufVars>>

\* JobThread::queue_job: the job goes to the back of the thread's bounded
\* queue; a full queue blocks the caller
QueueJob(t, j) ==
    /\ Len(queue[t]) < QUEUE_CAPACITY
    /\ queue' = [queue EXCEPT ![t] = Append(queue[t], j)]
    /\ enqOrder' = [enqOrder EXCEPT ![t] = Append(enqOrder[t], j)]

\* JobThread::execute: wake the run loop; nothing more when it is awake already
Execute(t) ==
    signalled' = [signalled EXCEPT ![t] = TRUE]

\* (*job_thread).queue_job(func), system.rs line 45
RunJobQueue(a) ==
    /\ rjpc[a] = "selected"
    /\ QueueJob(rjThread[a], rjJob[a])
    /\ rjpc' = [rjpc EXCEPT ![a] = "queued"]
    /\ lastSelector' = IF lastSelector = a THEN NoThread ELSE lastSelector
    /\ rjTwoIdle' = [rjTwoIdle EXCEPT ![a] = FALSE]
    /\ UNCHANGED <<hw, build, inited, thread_count, current_optimal_thread,
                   lock, poisoned, wstate, signalled, pc, rjThread, rjJob, widx,
                   waitSeen, nextJob, submitter, fut, got, invOrder>>
    /\ UNCHANGED <<selVars, bufVars>>

\* run_job returns the future without calling execute()
RunJobNoExecute(a) ==
    /\ rjpc[a] = "queued"
    /\ rjpc' = [rjpc EXCEPT ![a] = "none"]
    /\ rjJob' = [rjJob EXCEPT ![a] = NoJob]
    /\ rjThread' = [rjThread EXCEPT ![a] = NoThread]
    /\ pc' = [x \in Callers |-> IF x = a THEN "idle" ELSE pc[x]]
    /\ UNCHANGED <<hw, build, inited, thread_count, current_optimal_thread,
                   lock, poisoned, queue, wstate, signalled, widx, waitSeen,
                   nextJob, submitter, fut, got, enqOrder, invOrder>>
    /\ UNCHANGED histVars
    /\ UNCHANGED <<selVars, bufVars>>

\* (*job_thread).execute() and the return of the future, system.rs lines 46-47
RunJobExecute(a) ==
    /\ rjpc[a] = "queued"
    /\ Execute(rjThread[a])
    /\ rjpc' = [rjpc EXCEPT ![a] = "none"]
    /\ rjJob' = [rjJob EXCEPT ![a] = NoJob]
    /\ rjThread' = [rjThread EXCEPT ![a] = NoThread]
    /\ pc' = [x \in Callers |-> IF x = a THEN "idle" ELSE pc[x]]
    /\ UNCHANGED <<hw, build, inited, thread_count, current_optimal_thread,
                   lock, poisoned, queue, wstate, widx, waitSeen, nextJob,
                   submitter, fut, got, enqOrder, invOrder>>
    /\ UNCHANGED histVars
    /\ UNCHANGED <<selVars, bufVars>>

\* ---- the worker thread's run loop (section 4.3 of the specification)
\* Idle -> Draining: the signal of execute() wakes the parked thread
WorkerWake(t) ==
    /\ t \in Pool
    /\ wstate[t] = "parked"
    /\ signalled[t]
    /\ wstate' = [wstate EXCEPT ![t] = "draining"]
    /\ signalled' = [signalled EXCEPT ![t] = FALSE]
    /\ UNCHANGED <<hw, build, inited, thread_count, current_optimal_thread,
                   lock, poisoned, queue, pc, rjpc, rjThread, rjJob, widx,
                   waitSeen, nextJob, submitter, fut, got, enqOrder, invOrder>>
    /\ UNCHANGED histVars
    /\ UNCHANGED <<selVars, bufVars>>

\* Draining: pop the job at the front of the queue and start invoking it
WorkerPop(t) ==
    /\ t \in Pool
    /\ wstate[t] = "draining"
    /\ queue[t] # <<>>
    /\ wstate' = [wstate EXCEPT ![t] = "invoking"]
    /\ invOrder' = [invOrder EXCEPT ![t] = Append(invOrder[t], Head(queue[t]))]
    /\ queue' = [queue EXCEPT ![t] = Tail(queue[t])]
    /\ UNCHANGED <<hw, build, inited, thread_count, current_optimal_thread,
                   lock, poisoned, signalled, pc, rjpc, rjThread, rjJob, widx,
                   waitSeen, nextJob, submitter, fut, got, enqOrder>>
    /\ UNCHANGED histVars
    /\ UNCHANGED <<selVars, bufVars>>

\* the closure returns: its result goes into the job's future, the future
\* becomes ready and the queued count is decremented
WorkerFinish(t) ==
    /\ t \in Pool
    /\ wstate[t] = "invoking"
    /\ rjpc[t] = "none"
    /\ fut' = [fut EXCEPT ![CurrentJob(t)] = JobValue(CurrentJob(t))]
    /\ wstate' = [wstate EXCEPT ![t] = "draining"]
    /\ UNCHANGED <<hw, build, inited, thread_count, current_optimal_thread,
                   lock, poisoned, queue, signalled, pc, rjpc, rjThread, rjJob,
                   widx, waitSeen, nextJob, submitter, got, enqOrder, invOrder>>
    /\ UNCHANGED histVars
    /\ UNCHANGED <<selVars, bufVars>>

\* Draining -> Idle when the queue is empty
WorkerPark(t) ==
    /\ t \in Pool
    /\ wstate[t] = "draining"
    /\ queue[t] = <<>>
    /\ wstate' = [wstate EXCEPT ![t] = "parked"]
    /\ UNCHANGED <<hw, build, inited, thread_count, current_optimal_thread,
                   lock, poisoned, queue, signalled, pc, rjpc, rjThread, rjJob,
                   widx, waitSeen, nextJob, submitter, fut, got, enqOrder,
                   invOrder>>
    /\ UNCHANGED histVars
    /\ UNCHANGED <<selVars, bufVars>>

\* ---- JobSystem::wait, system.rs lines 52-58 (through job_system_wait,
\* lines 172-177)
\* thread::yield_now() and let lock = self.inner.lock().unwrap(), lines 53-54;
\* a caller that finds the mutex taken blocks, it proceeds once it is free
WaitCall(c) ==
    /\ inited
    /\ pc[c] = "idle"
    /\ lock = Free
    /\ waitSeen' = [waitSeen EXCEPT ![c] = Handles(c)]
    /\ IF poisoned
       THEN \* unwrap() of a poisoned mutex
            /\ pc' = [pc EXCEPT ![c] = "panicked"]
            /\ UNCHANGED <<lock, widx>>
       ELSE /\ lock' = c
            /\ widx' = [widx EXCEPT ![c] = 0]
            /\ pc' = [pc EXCEPT ![c] = "wait"]
    /\ UNCHANGED <<hw, build, inited, thread_count, current_optimal_thread,
                   poisoned, queue, wstate, signalled, rjpc, rjThread, rjJob,
                   nextJob, submitter, fut, got, enqOrder, invOrder>>
    /\ UNCHANGED histVars
    /\ UNCHANGED <<selVars, bufVars>>

\* the sweep stops after the first thread
WaitSweepFirstOnly(c) == widx[c] >= 1

\* the sweep has waited for every thread of the pool
WaitSweepDone(c) == widx[c] >= thread_count

\* job_thread.wait() on the next thread of the sweep, lines 55-57
WaitThread(c) ==
    /\ pc[c] = "wait"
    /\ widx[c] # NoThread
    /\ ~WaitSweepDone(c)
    /\ ThreadDrained(widx[c])
    /\ widx' = [widx EXCEPT ![c] = widx[c] + 1]
    /\ UNCHANGED <<hw, build, inited, thread_count, current_optimal_thread,
                   lock, poisoned, queue, wstate, signalled, pc, rjpc, rjThread,
                   rjJob, waitSeen, nextJob, submitter, fut, got, enqOrder,
                   invOrder>>
    /\ UNCHANGED histVars
    /\ UNCHANGED <<selVars, bufVars>>

\* the end of wait(): the guard is dropped, line 58
WaitReturn(c) ==
    /\ pc[c] = "wait"
    /\ widx[c] # NoThread
    /\ WaitSweepDone(c)
    /\ lock' = Free
    /\ widx' = [widx EXCEPT ![c] = NoThread]
    /\ pc' = [pc EXCEPT ![c] = "idle"]
    /\ waitSeen' = [waitSeen EXCEPT ![c] = {}]
    /\ UNCHANGED <<hw, build, inited, thread_count, current_optimal_thread,
                   poisoned, queue, wstate, signalled, rjpc, rjThread, rjJob,
                   nextJob, submitter, fut, got, enqOrder, invOrder>>
    /\ UNCHANGED histVars
    /\ UNCHANGED <<selVars, bufVars>>

\* Future.wait() returns whatever the result cell holds, ready or not
FutureWaitNoBlock(c, j) ==
    /\ pc[c] = "idle"
    /\ j \in Handles(c)
    /\ got.job # j
    /\ got' = [job |-> j, value |-> fut[j]]
    /\ UNCHANGED <<hw, build, inited, thread_count, current_optimal_thread,
                   lock, poisoned, queue, wstate, signalled, pc, rjpc, rjThread,
                   rjJob, widx, waitSeen, nextJob, submitter, fut, enqOrder,
                   invOrder>>
    /\ UNCHANGED histVars
    /\ UNCHANGED <<selVars, bufVars>>

\* ---- JobFuture::wait (section 4.4): blocks until the producing job has
\* written its result, then returns it
FutureWait(c, j) ==
    /\ pc[c] = "idle"
    /\ j \in Handles(c)
    /\ fut[j] # NotReady
    /\ got.job # j
    /\ got' = [job |-> j, value |-> fut[j]]
    /\ UNCHANGED <<hw, build, inited, thread_count, current_optimal_thread,
                   lock, poisoned, queue, wstate, signalled, pc, rjpc, rjThread,
                   rjJob, widx, waitSeen, nextJob, submitter, fut, enqOrder,
                   invOrder>>
    /\ UNCHANGED histVars
    /\ UNCHANGED <<selVars, bufVars>>

Next ==
    \/ \E c \in Callers : JobSystemInit(c)
    \/ JobSystemRunUninit(MainThread)
    \/ JobSystemWaitUninit(MainThread)
    \/ \E c \in Callers : RunJobCall(c)
    \/ \E t \in Threads : BodyRunJobCall(t)
    \/ \E t \in Threads : BodyRunJobLock(t)
    \/ \E a \in Actors : RunJobSelect(a)
    \/ \E a \in Actors : RunJobQueue(a)
    \/ \E a \in Actors : RunJobExecute(a)
    \/ \E t \in Threads : WorkerWake(t)
    \/ \E t \in Threads : WorkerPop(t)
    \/ \E t \in Threads : WorkerFinish(t)
    \/ \E t \in Threads : WorkerPark(t)
    \/ WaitCall(MainThread)
    \/ WaitThread(MainThread)
    \/ WaitReturn(MainThread)
    \/ \E j \in JobIds : FutureWait(MainThread, j)

Spec == Init /\ [][Next]_vars

\* ---- properties of the pool
Allocated == 1..(nextJob - 1)
Completed(j) == fut[j] # NotReady
\* the sweep of c's wait() is over and wait() is about to return
WaitReturning(c) == pc[c] = "wait" /\ widx[c] # NoThread /\ WaitSweepDone(c)
\* every job ever submitted was submitted by c, and its run_job had returned
\* when c called wait(): no job body and no other thread submitted
OnlySubmitter(c) == \A j \in Allocated : submitter[j] = c /\ j \in waitSeen[c]
\* the elements of a sequence
Range(q) == {q[i] : i \in 1..Len(q)}
IsPrefix(p, q) == Len(p) <= Len(q) /\ \A i \in 1..Len(p) : p[i] = q[i]

\* C1: when one caller has submitted N jobs, no job body and no other thread
\* submit, the pool-wide wait() returns only after all N job bodies have
\* completed, and at that moment every queue is empty and no worker is
\* invoking a job
C1_WaitReturnsAfterAllJobs ==
    \A c \in Callers :
        (WaitReturning(c) /\ OnlySubmitter(c)) =>
            /\ \A j \in waitSeen[c] : Completed(j)
            /\ \A t \in Pool : queue[t] = <<>> /\ wstate[t] # "invoking"

\* wait() returns after two jobs that ran on two different threads
C1_Witness ==
    /\ WaitReturning(MainThread)
    /\ OnlySubmitter(MainThread)
    /\ thread_count = 2
    /\ Cardinality(waitSeen[MainThread]) >= 2
    /\ \A t \in Pool : invOrder[t] # <<>>

\* C2: Future.wait() on the future of the job that returns i returns i, never
\* before the body of that job has finished, and the futures of different
\* jobs hold different values
C2_FutureReturnsOwnValue ==
    /\ got.job # NoJob =>
          /\ got.value = got.job - 1
          /\ \E t \in Pool : got.job \in Range(invOrder[t])
          /\ \A t \in Pool : wstate[t] = "invoking" => CurrentJob(t) # got.job
    /\ \A j, k \in JobIds :
          (j # k /\ Completed(j) /\ Completed(k)) => fut[j] # fut[k]

\* the future of the third job is waited for after the future of an earlier
\* job, and the job ran on the second thread
C2_Witness ==
    /\ got.job = 2
    /\ got.value = 1
    /\ Completed(3)
    /\ \E t \in Pool : t > 0 /\ got.job \in Range(invOrder[t])

\* C7: whenever some thread is idle, the selection of run_job returns an idle
\* thread
C7_IdlePreferred ==
    [][\A a \in Actors :
          (RunJobSelect(a) /\ rjpc'[a] = "selected"
             /\ \E t \in Pool : ~IsExecuting(t))
          => ~IsExecuting(rjThread'[a])]_vars

\* the activity of the thread that holds the scheduler's lock: enqueueing or
\* executing on a worker, running a job body, or blocked in JobThread::wait
HolderWorking(a) ==
    \/ rjpc[a] \in {"selected", "queued"}
    \/ a \in Threads /\ wstate[a] = "invoking" /\ rjpc[a] # "locked"
    \/ a \in Callers /\ pc[a] = "wait" /\ widx[a] # NoThread
         /\ ~WaitSweepDone(a) /\ ~ThreadDrained(widx[a])

\* C8: the scheduler's lock is held only for the duration of thread selection:
\* its holder is never enqueueing, executing, invoking a job or blocked
\* waiting for a worker thread to drain
C8_LockOnlyForSelection ==
    lock # Free => ~HolderWorking(lock)

\* C9: per worker thread, jobs are invoked in the order they were enqueued,
\* none is lost or invoked twice, and none is left behind on a parked thread,
\* also when several callers enqueue on the same worker without the lock
C9_FifoNoLoss ==
    /\ \A t \in Pool :
          /\ IsPrefix(invOrder[t], enqOrder[t])
          /\ enqOrder[t] = invOrder[t] \o queue[t]
          /\ \A i, k \in 1..Len(invOrder[t]) :
                i # k => invOrder[t][i] # invOrder[t][k]
          /\ (queue[t] # <<>> /\ \A a \in Actors : rjpc[a] = "none")
                => (wstate[t] # "parked" \/ signalled[t])
    /\ \A t, u \in Pool :
          t # u => Range(enqOrder[t]) \cap Range(enqOrder[u]) = {}

\* two callers were inside run_job at the same time, both enqueued on the
\* same worker, and the worker has invoked both jobs
C9_Witness ==
    \E t \in Pool :
        /\ Len(invOrder[t]) >= 2
        /\ submitter[invOrder[t][1]] \in Callers
        /\ submitter[invOrder[t][2]] \in Callers
        /\ submitter[invOrder[t][1]] # submitter[invOrder[t][2]]
        /\ invOrder[t][1] > invOrder[t][2]

\* C10: max_available_job_threads() is non-zero for every reported
\* parallelism p >= 1
C10_NonZeroThreadCount ==
    hw >= 1 => MaxAvailableJobThreads(hw) > 0

\* the scheduler job_system_init published: the pool max_available_job_threads
\* sized, with every index of a run_job in progress one of its threads
Forwarded ==
    /\ thread_count = MaxAvailableJobThreads(hw)
    /\ \A a \in Actors : rjThread[a] # NoThread => rjThread[a] \in Pool

\* C11: in a debug build a job_system_run or job_system_wait before any
\* job_system_init ends in the uninitialized-scheduler assertion, never in a
\* dereference of the null handle; while no scheduler is published no caller
\* is inside run_job or wait, no thread is selected, no job is enqueued and
\* the lock is free; after job_system_init the calls reach the scheduler
\* that init created
C11_UninitAsserts ==
    /\ build = "debug" => \A c \in Callers : pc[c] # "crashed"
    /\ \A c \in Callers : pc[c] = "uninit_panic" => build = "debug"
    /\ ~inited =>
          /\ \A c \in Callers : pc[c] \notin {"run_job", "wait"}
          /\ \A a \in Actors : rjpc[a] = "none" /\ rjThread[a] = NoThread
          /\ \A t \in Threads : queue[t] = <<>> /\ enqOrder[t] = <<>>
          /\ lock = Free
          /\ nextJob = 1
    /\ (\E c \in Callers : pc[c] \in {"run_job", "wait"}) =>
          (inited /\ Forwarded)

\* the main thread's call before init panicked; the second thread then
\* initialised the scheduler and its job_system_run enqueued a job on it
C11_Witness ==
    /\ build = "debug"
    /\ pc[MainThread] = "uninit_panic"
    /\ inited
    /\ pc[SecondThread] = "run_job"
    /\ rjpc[SecondThread] = "queued"
    /\ Forwarded

\* a pool-wide wait() or a run_job is in progress
CallInProgress ==
    \/ \E c \in Callers : pc[c] \in {"wait", "run_job"}
    \/ \E a \in Actors : rjpc[a] # "none"

\* a step of a thread that is inside the job system: of a run_job or a wait()
\* in progress, or of a worker's run loop
Progress ==
    \/ \E t \in Threads : BodyRunJobLock(t)
    \/ \E a \in Actors : RunJobSelect(a) \/ RunJobQueue(a) \/ RunJobExecute(a)
    \/ \E t \in Threads : WorkerWake(t) \/ WorkerPop(t) \/ WorkerFinish(t)
                              \/ WorkerPark(t)
    \/ \E c \in Callers : WaitThread(c) \/ WaitReturn(c)

\* C14: with job bodies that terminate, a wait() or a run_job in progress can
\* always go on: the threads inside the job system never all block on each
\* other, also when a job body calls run_job while another thread is inside
\* wait()
C14_CallsCanReturn ==
    CallInProgress => ENABLED Progress

\* C18: for a scheduler built with N >= 1 threads the thread count stays N,
\* the cursor stays in 0..N-1 and every index a selection returned is in
\* 0..N-1, whatever run_job and wait calls have run or are running
C18_CountCursorIndexInRange ==
    (inited /\ thread_count >= 1) =>
        /\ thread_count = MaxAvailableJobThreads(hw)
        /\ current_optimal_thread \in Pool
        /\ \A a \in Actors : rjThread[a] # NoThread => rjThread[a] \in Pool
        /\ \A a \in Actors :
              rjpc[a] \in {"selected", "queued"} => rjThread[a] \in Pool
        /\ ~poisoned

\* two threads: the second thread's selection returned thread 1 and wrapped
\* the cursor to 0, the main thread is inside wait()
C18_Witness ==
    /\ thread_count = 2
    /\ pc[MainThread] = "wait"
    /\ rjpc[SecondThread] = "selected"
    /\ rjThread[SecondThread] = 1
    /\ current_optimal_thread = 0

\* a and b are inside run_job, both have selected and neither has enqueued
BothSelected(a, b) ==
    a # b /\ rjpc[a] = "selected" /\ rjpc[b] = "selected"

\* C19 as stated: two run_job calls that have both selected before either
\* enqueued, each with two or more threads idle and empty at its selection,
\* have selected different threads
C19_ConcurrentSelectionsDiffer ==
    \A a, b \in Actors :
        (BothSelected(a, b) /\ rjTwoIdle[a] /\ rjTwoIdle[b])
            => rjThread[a] # rjThread[b]

\* C19 amended: a selection that follows the selection of another call
\* directly, with no selection in between and before that call has enqueued,
\* returns a thread other than the one that call selected, whenever two or
\* more threads were idle and empty at both selections
C19_ConsecutiveSelectionsDiffer ==
    [][\A a, b \in Actors :
          (a # b /\ lastSelector = a /\ rjTwoIdle[a] /\ rjpc[b] = "locked"
             /\ RunJobSelect(b) /\ rjpc'[b] = "selected" /\ rjTwoIdle'[b])
          => rjThread'[b] # rjThread[a]]_vars

\* the main thread selected thread 0, the second thread selected next and
\* got thread 1; neither has enqueued, both threads were idle and empty
C19_Witness ==
    /\ BothSelected(MainThread, SecondThread)
    /\ rjTwoIdle[MainThread]
    /\ rjTwoIdle[SecondThread]
    /\ lastSelector = SecondThread
    /\ rjThread[MainThread] = 0
    /\ rjThread[SecondThread] = 1
    /\ IdleEmpty = {0, 1}

====
